---- MODULE Spec2Model ----
(***************************************************************************)
(* Loading, balance replay, daily valuation, BTC price lookup and export   *)
(* of a Binance transaction ledger, after                                  *)
(* analysis_binance_transactions_3.py (BinanceTransactionAnalyzer)         *)
(* and the single-account variant analysis_binance_transactions_enhanced.py*)
(*                                                                         *)
(* Amounts are integers (the code uses floats; rounding is not modelled);  *)
(* a quotient of two amounts is kept as a pair (Ratio).                    *)
(* Time is counted in half seconds from midnight of day 0, so that a       *)
(* timestamp between 23:59:59 and midnight is representable; day 0 is      *)
(* 2021-01-01, the base date of the price estimate.                        *)
(* The free-text Remark column is not modelled. The dates of a price file  *)
(* are whole days and unique.                                              *)
(*                                                                         *)
(* Specifications: Spec and LedgerSpec start from a loaded ledger and run  *)
(* the analysis; OracleSpec applies the price lookup to price files;       *)
(* RunSpec and ExportSpec run main from a ledger file.                     *)
(***************************************************************************)
EXTENDS Integers, Sequences, FiniteSets, TLC

VARIABLES
    raw_data,               \* self.raw_data: the ledger rows, in frame order
    pc,                     \* position of the run: start, load_failed, loaded, replay,
                            \* valued, enh_valued, crashed, reported, exported, saved,
                            \* done; oracle while only the price lookup is exercised
    pos,                    \* number of rows the replay loop has processed
    asset_balances,         \* self.asset_balances: main account state
    spot_lead_balances,     \* self.spot_lead_balances: 'Spot Lead' state
    balance_history,        \* snapshots appended for the main account
    spot_lead_history,      \* snapshots appended for 'Spot Lead'
    daily_portfolio_value,  \* self.daily_portfolio_value
    btc_price_data,         \* self.btc_price_data: None or the price rows in file order
    price_query,            \* the argument of the last _get_btc_price_for_date call
    price_answer,           \* what that call returned or raised
    csv_file,               \* the ledger file load_data reads
    files,                  \* names of the output files written so far
    transactions,           \* the list _generate_transactions_pyfolio collects
    return_stats,           \* what _calculate_returns computes: the daily_return and
                            \* cumulative_return columns and self.return_stats
    transactions_pyfolio,   \* the rows written to transactions_pyfolio.csv
    positions_pyfolio,      \* the rows written to positions_pyfolio.csv
    returns_pyfolio,        \* the rows written to returns_pyfolio.csv
    page_count,             \* BinanceTransactions._get_transactions_with_pagination
    all_transactions,       \* number of records that loop has collected
    raw_transactions,       \* the trades handed to _calculate_daily_positions
    date_range,             \* the days of the price frame handed to it
    positions_df            \* the frame it returns

\* the tables generate_pyfolio_data writes
table_vars == <<transactions_pyfolio, positions_pyfolio, returns_pyfolio>>

\* the state of the exchange client (binance_transactions.py)
api_vars == <<page_count, all_transactions, raw_transactions, date_range, positions_df>>

\* the state of the analyzer (analysis_binance_transactions_3.py)
analyzer_vars == <<raw_data, pos, asset_balances, spot_lead_balances,
                   balance_history, spot_lead_history, daily_portfolio_value,
                   btc_price_data, price_query, price_answer, csv_file, files,
                   transactions, return_stats,
                   transactions_pyfolio, positions_pyfolio, returns_pyfolio>>

\* the variables the replay and the valuation leave alone
io_vars == <<btc_price_data, price_query, price_answer, csv_file, files, transactions,
             transactions_pyfolio, positions_pyfolio, returns_pyfolio,
             page_count, all_transactions, raw_transactions, date_range, positions_df>>

vars == <<raw_data, pc, pos, asset_balances, spot_lead_balances,
          balance_history, spot_lead_history, daily_portfolio_value,
          btc_price_data, price_query, price_answer, csv_file, files, transactions,
          return_stats, transactions_pyfolio, positions_pyfolio, returns_pyfolio,
          page_count, all_transactions, raw_transactions, date_range, positions_df>>

-----------------------------------------------------------------------------
(* Bounds of the model *)

\* rows of a ledger in the time-oriented specification Spec
MaxEvents == 3

\* rows of a ledger in the content-oriented specification LedgerSpec
MaxLedgerEvents == 2

\* calendar days 0..MaxDay carry events
MaxDay == 2

\* rows of a price file
MaxPrices == 3

\* price files and price lookups use the days 0..MaxPriceDay
MaxPriceDay == 4

\* the price the lookup falls back to when the nearest search fails
DefaultPrice == 95000

\* rows of a ledger file in the run-oriented specification RunSpec
MaxCsvRows == 3

\* rows of a ledger file in the trade-oriented specification ExportSpec
MaxTrades == 3

\* rows of a ledger file in the specification LegSpec of trades with their own legs
MaxLegRows == 4

\* days of a daily value series in the specification ReturnsSpec
MaxSeriesLen == 4

\* requests after which the model stops following the pagination loop
MaxRequests == 52

\* trades handed to _calculate_daily_positions, and the last day they and the
\* price frame can be dated
MaxApiTrades == 2
MaxApiDay == 2

-----------------------------------------------------------------------------
(* Time *)

Seconds(s) == s * 2

DayTicks == Seconds(24 * 60 * 60)

\* Timestamp.date()
DateOf(timestamp) == timestamp \div DayTicks

\* pd.Timestamp(date) + pd.Timedelta(hours=23, minutes=59, seconds=59)
EndOfDay(date) == date * DayTicks + Seconds(23 * 3600 + 59 * 60 + 59)

-----------------------------------------------------------------------------
(* Dictionaries of balances *)

\* the keys both balance dictionaries are initialised with
TrackedAssets == {"USDT", "BTC", "BNB", "ETH", "SOL", "BUSD", "USD"}

\* {'USDT': 0.0, 'BTC': 0.0, ...}
ZeroBalances == [asset \in TrackedAssets |-> 0]

\* {}
EmptyDict == [asset \in {} |-> 0]

\* dict.get(asset, 0.0)
Get(dict, asset) == IF asset \in DOMAIN dict THEN dict[asset] ELSE 0

\* max(0.0, v)
Max0(v) == IF v > 0 THEN v ELSE 0

-----------------------------------------------------------------------------
(* Operation names, by branch of the replay loop *)

TransactionOps ==
    {"Transaction Buy", "Transaction Sold", "Transaction Spend", "Transaction Revenue"}

TransferOps == {"Deposit", "Withdraw", "Send"}

ProfitSharingOps == {"Copy Portfolio (Spot) - Profit Sharing with Leader"}

LeadCreateOps == {"Lead Portfolio (Spot) - Create"}

LeadTransferOps ==
    {"Lead Portfolio (Spot) - Deposit", "Lead Portfolio (Spot) - Withdraw"}

\* operation names the report reads from the ledger but the replay has no branch for
FuturesOps == {"Funding Fee", "Realized Profit and Loss"}

-----------------------------------------------------------------------------
(* Ledgers a run can start from *)

Row(idx, t, account, operation, coin, change) ==
    [idx |-> idx, UTC_Time |-> t, Account |-> account, Operation |-> operation,
     Coin |-> coin, Change |-> change]

\* Spec: many timestamps (at the end-of-day cutoff and half a second after it),
\* both balance states, deposits of one tracked asset
GridTimes == {EndOfDay(d) + k : d \in 0..MaxDay, k \in {0, 1}}

GridEvents ==
    [UTC_Time : GridTimes, Account : {"Spot", "Spot Lead"}, Operation : {"Deposit"},
     Coin : {"BTC"}, Change : {5}]

\* LedgerSpec: one timestamp (noon of day 0), three accounts, an operation with
\* and one without a branch in the replay, a tracked and an untracked asset
LedgerTimes == {Seconds(12 * 3600)}

LedgerEvents ==
    [UTC_Time : LedgerTimes, Account : {"Spot", "USD-M Futures", "Spot Lead"},
     Operation : {"Deposit", "Funding Fee"}, Coin : {"BTC", "ADA"}, Change : {-5, 5}]

\* read_csv labels the rows 1..n in file order (RangeIndex)
Labelled(rows) ==
    [k \in 1..Len(rows) |-> Row(k, rows[k].UTC_Time, rows[k].Account,
                                rows[k].Operation, rows[k].Coin, rows[k].Change)]

\* daily_portfolio_value = None / a frame with the given rows
None == [is_none |-> TRUE, rows |-> <<>>]
DataFrame(rows) == [is_none |-> FALSE, rows |-> rows]

\* no call of the price lookup made yet
NoQuery == [kind |-> "none", day |-> 0]
NoAnswer == [raised |-> FALSE, value |-> 0]

\* the ledger file once load_data has consumed it
NoFile == [columns_ok |-> TRUE, rows |-> <<>>]

\* _calculate_returns has not set the attribute return_stats
NoStats == [is_none |-> TRUE]

\* nothing analysed and no table written yet
NoOutputs ==
    /\ return_stats = NoStats
    /\ transactions_pyfolio = <<>>
    /\ positions_pyfolio = <<>>
    /\ returns_pyfolio = <<>>

\* the exchange client is not in use
ApiIdle ==
    /\ page_count = 0
    /\ all_transactions = 0
    /\ raw_transactions = <<>>
    /\ date_range = <<>>
    /\ positions_df = <<>>

InitWith(events, maxlen) ==
    /\ \E n \in 0..maxlen : \E rows \in [1..n -> events] : raw_data = Labelled(rows)
    /\ pc = "loaded"
    /\ pos = 0
    /\ asset_balances = EmptyDict
    /\ spot_lead_balances = EmptyDict
    /\ balance_history = <<>>
    /\ spot_lead_history = <<>>
    /\ daily_portfolio_value = None
    /\ btc_price_data = None
    /\ price_query = NoQuery
    /\ price_answer = NoAnswer
    /\ csv_file = NoFile
    /\ files = {}
    /\ transactions = <<>>
    /\ NoOutputs
    /\ ApiIdle

Init == InitWith(GridEvents, MaxEvents)

LedgerInit == InitWith(LedgerEvents, MaxLedgerEvents)

-----------------------------------------------------------------------------
(* analyze_transactions: sort_values('UTC_Time') *)

\* sort left out: the rows stay in any order
AnyOrders(rows) == Permutations(1..Len(rows))

\* the orders the default (quicksort, not stable) sort may leave the rows in:
\* every permutation that is non-decreasing in UTC_Time
SortedOrders(rows) ==
    {p \in Permutations(1..Len(rows)) :
        \A j, k \in 1..Len(rows) :
            j < k => rows[p[j]].UTC_Time <= rows[p[k]].UTC_Time}

sort_values(rows) ==
    {[j \in 1..Len(rows) |-> rows[p[j]]] : p \in SortedOrders(rows)}

-----------------------------------------------------------------------------
(* _calculate_asset_balances *)

\* no row is routed to the 'Spot Lead' state
NeverSpotLead(account) == FALSE

\* which of the two states a row is applied to
IsSpotLead(account) == account = "Spot Lead"

\* target_balances[coin] += amount, under the guard every branch repeats
AddIfTracked(target_balances, coin, amount) ==
    IF coin \in DOMAIN target_balances
    THEN [target_balances EXCEPT ![coin] = @ + amount]
    ELSE target_balances

\* the if/elif chain over the operation
ApplyOperation(target_balances, operation, coin, amount) ==
    IF operation \in TransactionOps THEN AddIfTracked(target_balances, coin, amount)
    ELSE IF operation \in TransferOps THEN AddIfTracked(target_balances, coin, amount)
    ELSE IF operation \in ProfitSharingOps THEN AddIfTracked(target_balances, coin, amount)
    ELSE IF operation \in LeadCreateOps THEN AddIfTracked(target_balances, coin, amount)
    ELSE IF operation \in LeadTransferOps THEN AddIfTracked(target_balances, coin, amount)
    ELSE target_balances

\* balance_copy: the state after the row plus the row's metadata
Snapshot(target_balances, row) ==
    [balances |-> target_balances, timestamp |-> row.UTC_Time,
     operation |-> row.Operation, coin |-> row.Coin, amount |-> row.Change,
     account |-> row.Account]

\* the dictionary appended without .copy(): every snapshot of the history is the
\* one live dictionary, so all of them show the state after the last row
AppendWithoutCopy(target_history, target_balances, row) ==
    Append([n \in 1..Len(target_history) |->
                [target_history[n] EXCEPT !.balances = target_balances]],
           Snapshot(target_balances, row))

\* balance_copy = target_balances.copy(); target_history.append(balance_copy)
AppendSnapshot(target_history, target_balances, row) ==
    Append(target_history, Snapshot(target_balances, row))

\* lines 131-132 and 175-197: sort, then reset both states and histories
SortAndReset ==
    /\ pc = "loaded"
    /\ raw_data' \in sort_values(raw_data)
    /\ pc' = "replay"
    /\ pos' = 0
    /\ asset_balances' = ZeroBalances
    /\ spot_lead_balances' = ZeroBalances
    /\ balance_history' = <<>>
    /\ spot_lead_history' = <<>>
    /\ UNCHANGED <<daily_portfolio_value, return_stats>>
    /\ UNCHANGED io_vars

\* one iteration of the loop over raw_data.iterrows()
ReplayStep ==
    /\ pc = "replay"
    /\ pos < Len(raw_data)
    /\ LET row == raw_data[pos + 1] IN
        IF IsSpotLead(row.Account)
        THEN /\ spot_lead_balances' =
                    ApplyOperation(spot_lead_balances, row.Operation, row.Coin, row.Change)
             /\ spot_lead_history' =
                    AppendSnapshot(spot_lead_history, spot_lead_balances', row)
             /\ UNCHANGED <<asset_balances, balance_history>>
        ELSE /\ asset_balances' =
                    ApplyOperation(asset_balances, row.Operation, row.Coin, row.Change)
             /\ balance_history' =
                    AppendSnapshot(balance_history, asset_balances', row)
             /\ UNCHANGED <<spot_lead_balances, spot_lead_history>>
    /\ pos' = pos + 1
    /\ UNCHANGED <<raw_data, pc, daily_portfolio_value, return_stats>>
    /\ UNCHANGED io_vars

-----------------------------------------------------------------------------
(* _calculate_daily_portfolio_value *)

\* the filter with < in place of <=
HistoryBefore(history, timestamp) ==
    SelectSeq(history, LAMBDA snapshot : snapshot.timestamp < timestamp)

\* history[history['timestamp'] <= timestamp]
HistoryUpTo(history, timestamp) ==
    SelectSeq(history, LAMBDA snapshot : snapshot.timestamp <= timestamp)

\* .iloc[-1] of the filtered history, reduced to the asset columns; {} when the
\* filtered history is empty
LastBalances(history_up_to_time) ==
    IF history_up_to_time = <<>>
    THEN EmptyDict
    ELSE [asset \in TrackedAssets |->
             history_up_to_time[Len(history_up_to_time)].balances[asset]]

\* main_balance / spot_lead_balance of get_balances_at_time
ScopeBalanceAt(history, timestamp) == LastBalances(HistoryUpTo(history, timestamp))

\* the two scopes netted before the clamp
SumThenClamp(main_val, spot_val) == Max0(main_val + spot_val)

\* max(0.0, main_val) + max(0.0, spot_val)
CombineVals(main_val, spot_val) == Max0(main_val) + Max0(spot_val)

\* combined_balance over the keys of either dictionary
CombineBalances(main_balance, spot_lead_balance) ==
    [asset \in (DOMAIN main_balance) \cup (DOMAIN spot_lead_balance) |->
        CombineVals(Get(main_balance, asset), Get(spot_lead_balance, asset))]

get_balances_at_time(timestamp) ==
    CombineBalances(ScopeBalanceAt(balance_history, timestamp),
                    ScopeBalanceAt(spot_lead_history, timestamp))

\* the timestamp column of both histories
AllTimestamps(main_history, lead_history) ==
    {main_history[n].timestamp : n \in 1..Len(main_history)}
        \cup {lead_history[n].timestamp : n \in 1..Len(lead_history)}

SetMin(S) == CHOOSE x \in S : \A y \in S : x <= y
SetMax(S) == CHOOSE x \in S : \A y \in S : x >= y

-----------------------------------------------------------------------------
(* load_btc_price_data and _get_btc_price_for_date                          *)
(* Dates are day numbers counted from 2021-01-01, the base date of the      *)
(* estimate. A caller passes either a pandas Timestamp at midnight (the     *)
(* valuation, from pd.date_range) or a datetime.date (the exporters, from   *)
(* row['UTC_Time'].date(), and the report, from datetime.now().date()).     *)

\* close prices a price file of the model can hold
ClosePrices == {30000, 32000}

PriceRow(date, close) == [date |-> date, close |-> close]

\* the frame load_btc_price_data leaves: the valid rows of the file in file
\* order (no sort), dates unique, at most MaxPrices of them
PriceFrames ==
    UNION {{DataFrame([k \in 1..n |-> PriceRow(dates[k], closes[k])]) :
                dates \in {f \in [1..n -> 0..MaxPriceDay] :
                              \A j, k \in 1..n : j # k => f[j] # f[k]},
                closes \in [1..n -> ClosePrices]} : n \in 0..MaxPrices}

\* the arguments the call sites pass
Timestamp(day) == [kind |-> "Timestamp", day |-> day]
Date(day) == [kind |-> "date", day |-> day]
PriceQueries == {Timestamp(d) : d \in 0..MaxPriceDay} \cup {Date(d) : d \in 0..MaxPriceDay}

\* a float returned / an exception raised out of a call
Returned(value) == [raised |-> FALSE, value |-> value]
Raised == [raised |-> TRUE, value |-> 0]

\* 30000 * (1.001 ** days_diff), rounded down to a whole number day by day
RECURSIVE EstimatePrice(_)
EstimatePrice(days_diff) ==
    IF days_diff = 0 THEN 30000 ELSE (EstimatePrice(days_diff - 1) * 1001) \div 1000

\* (date - base_date).days: Timestamp - datetime is a Timedelta, while
\* datetime.date - datetime raises TypeError
EstimateFor(date) ==
    IF date.kind = "date" THEN Raised ELSE Returned(EstimatePrice(date.day))

Abs(v) == IF v < 0 THEN 0 - v ELSE v

\* Index.is_monotonic_increasing / is_monotonic_decreasing
IsMonotonicIncreasing(rows) ==
    \A j, k \in 1..Len(rows) : j < k => rows[j].date <= rows[k].date
IsMonotonicDecreasing(rows) ==
    \A j, k \in 1..Len(rows) : j < k => rows[j].date >= rows[k].date

\* ties at equal distance go to the smaller index value
PreferSmaller(rows, j, k) == rows[j].date <= rows[k].date

\* get_indexer(method='nearest'): ties at equal distance go to the larger index value
PreferLarger(rows, j, k) == rows[j].date >= rows[k].date

\* position get_indexer([date], method='nearest') returns for a monotonic index
NearestPosition(rows, day) ==
    CHOOSE k \in 1..Len(rows) :
        \A j \in 1..Len(rows) :
            \/ Abs(rows[k].date - day) < Abs(rows[j].date - day)
            \/ /\ Abs(rows[k].date - day) = Abs(rows[j].date - day)
               /\ PreferLarger(rows, k, j)

\* the try block: the nearest lookup needs a monotonic index, otherwise it
\* raises ValueError and the except branch returns the default price
NearestOrDefault(rows, day) ==
    IF IsMonotonicIncreasing(rows) \/ IsMonotonicDecreasing(rows)
    THEN Returned(rows[NearestPosition(rows, day)].close)
    ELSE Returned(DefaultPrice)

get_btc_price_for_date(price_data, date) ==
    IF price_data.is_none \/ price_data.rows = <<>>
    THEN EstimateFor(date)
    ELSE IF \E k \in 1..Len(price_data.rows) : price_data.rows[k].date = date.day
    THEN Returned(price_data.rows[CHOOSE k \in 1..Len(price_data.rows) :
                                      price_data.rows[k].date = date.day].close)
    ELSE NearestOrDefault(price_data.rows, date.day)

-----------------------------------------------------------------------------
(* _calculate_daily_portfolio_value and _calculate_returns                  *)

\* one entry of daily_values: its date and the combined balances its value and
\* balance columns are computed from
DailyRow(date, balances) == [date |-> date, balances |-> balances]

\* the loop over date_range: a day gets a row only when its balances are not {}
RECURSIVE DailyValues(_, _)
DailyValues(date, end_date) ==
    IF date > end_date
    THEN <<>>
    ELSE LET balances == get_balances_at_time(EndOfDay(date)) IN
         (IF balances # EmptyDict THEN <<DailyRow(date, balances)>> ELSE <<>>)
             \o DailyValues(date + 1, end_date)

\* _get_price_estimate for the tracked assets
price_estimate(coin) ==
    IF coin = "ETH" THEN 3000 ELSE IF coin = "BNB" THEN 300
    ELSE IF coin = "SOL" THEN 100 ELSE 1

\* portfolio_value of a row of daily_portfolio_value
PortfolioValue(row) ==
    Get(row.balances, "USDT") + Get(row.balances, "USD")
    + Get(row.balances, "BTC")
        * get_btc_price_for_date(btc_price_data, Timestamp(row.date)).value
    + Get(row.balances, "ETH") * price_estimate("ETH")
    + Get(row.balances, "BNB") * price_estimate("BNB")
    + Get(row.balances, "SOL") * price_estimate("SOL")
    + Get(row.balances, "BUSD") * price_estimate("BUSD")

\* the float num / den; with den = 0 it is NaN when num = 0 and an infinity
\* otherwise, as numpy divides
Ratio(num, den) == [num |-> num, den |-> den]

NaN == Ratio(0, 0)
IsNaN(x) == x.den = 0 /\ x.num = 0
IsInf(x) == x.den = 0 /\ x.num # 0

\* a / b < c / d for two finite floats with positive denominators, compared by
\* their integer parts and then by the inverted remainders
RECURSIVE LessThan(_, _)
LessThan(x, y) ==
    LET qx == x.num \div x.den
        qy == y.num \div y.den
        rx == x.num % x.den
        ry == y.num % y.den
    IN  IF qx # qy THEN qx < qy
        ELSE IF ry = 0 THEN FALSE
        ELSE IF rx = 0 THEN TRUE
        ELSE LessThan(Ratio(y.den, ry), Ratio(x.den, rx))

\* the column portfolio_value
PortfolioValues(daily_rows) ==
    [k \in 1..Len(daily_rows) |-> PortfolioValue(daily_rows[k])]

\* every return taken against the first value of the series
ChangeFromFirst(values) ==
    [k \in 1..Len(values) |->
        IF k = 1 THEN NaN ELSE Ratio(values[k] - values[1], values[1])]

\* Series.pct_change(): values / values.shift(1) - 1
pct_change(values) ==
    [k \in 1..Len(values) |->
        IF k = 1 THEN NaN ELSE Ratio(values[k] - values[k - 1], values[k - 1])]

\* (portfolio_value - initial_value) / initial_value
CumulativeReturn(values) ==
    [k \in 1..Len(values) |-> Ratio(values[k] - values[1], values[1])]

\* expanding().max() at row k
Peak(values, k) == SetMax({values[j] : j \in 1..k})

\* drawdown = (portfolio_value - peak) / peak
Drawdown(values) ==
    [k \in 1..Len(values) |-> Ratio(values[k] - Peak(values, k), Peak(values, k))]

\* Series.min(): the least value that is not NaN, NaN when there is none
SeriesMin(series) ==
    LET defined == {k \in 1..Len(series) : ~IsNaN(series[k])} IN
    IF defined = {} THEN NaN
    ELSE series[CHOOSE k \in defined : \A j \in defined : ~LessThan(series[j], series[k])]

\* Series.std() of daily_return classified: NaN with fewer than two values
\* that are not NaN or with an infinite one, else zero or positive
StdKind(returns) ==
    LET defined == {k \in 1..Len(returns) : ~IsNaN(returns[k])} IN
    IF Cardinality(defined) < 2 \/ \E k \in defined : IsInf(returns[k]) THEN "nan"
    ELSE IF \E j, k \in defined : LessThan(returns[j], returns[k]) THEN "positive"
    ELSE "zero"

\* the number of rows with daily_return > 0 (positive = TRUE) or < 0
CountDays(returns, positive) ==
    Cardinality({k \in 1..Len(returns) :
                    /\ ~IsNaN(returns[k])
                    /\ IF positive THEN returns[k].num > 0 ELSE returns[k].num < 0})

\* _calculate_returns on a non-empty series: the two columns it adds and the
\* dictionary return_stats. annualized_return is kept as the power it is
\* computed from, (base) ** (1 / years) - 1; sharpe_ratio stays None unless
\* volatility > 0
calculate_returns(values) ==
    LET initial_value == values[1]
        daily_return == pct_change(values)
        total_return == IF initial_value > 0
                        THEN Ratio(values[Len(values)] - initial_value, initial_value)
                        ELSE Ratio(0, 1)
    IN  [is_none |-> FALSE,
         daily_return |-> daily_return,
         has_cumulative_return |-> initial_value > 0,
         cumulative_return |-> IF initial_value > 0 THEN CumulativeReturn(values) ELSE <<>>,
         total_return |-> total_return,
         annualized_return |->
             [base |-> Ratio(total_return.den + total_return.num, total_return.den),
              years |-> Ratio(Len(values) * 100, 36525)],
         volatility |-> StdKind(daily_return),
         max_drawdown |-> SeriesMin(Drawdown(values)),
         sharpe_ratio_is_none |-> StdKind(daily_return) # "positive",
         total_days |-> Len(values),
         positive_days |-> CountDays(daily_return, TRUE),
         negative_days |-> CountDays(daily_return, FALSE)]

\* self.return_stats after _calculate_returns, which returns at once on a
\* missing or empty series
ReturnsOf(daily) ==
    IF daily.is_none \/ daily.rows = <<>> THEN NoStats
    ELSE calculate_returns(PortfolioValues(daily.rows))

\* the whole of _calculate_daily_portfolio_value, run when the replay loop has
\* ended, and of _calculate_returns, which analyze_transactions calls next
CalculateDailyPortfolioValue ==
    /\ pc = "replay"
    /\ pos = Len(raw_data)
    /\ pc' = "valued"
    /\ LET all_timestamps == AllTimestamps(balance_history, spot_lead_history) IN
        IF all_timestamps = {}
        THEN UNCHANGED <<daily_portfolio_value, return_stats>>
        ELSE LET daily == DataFrame(DailyValues(DateOf(SetMin(all_timestamps)),
                                                DateOf(SetMax(all_timestamps))))
             IN  /\ daily_portfolio_value' = daily
                 /\ return_stats' = ReturnsOf(daily)
    /\ UNCHANGED <<raw_data, pos, asset_balances, spot_lead_balances,
                   balance_history, spot_lead_history>>
    /\ UNCHANGED io_vars

-----------------------------------------------------------------------------
(* analysis_binance_transactions_enhanced.py: one balance state, 'Spot Lead'  *)
(* rows skipped                                                               *)

\* the if/elif chain of the enhanced replay loop (no lead transfer branch)
EnhApplyOperation(balances, operation, coin, amount) ==
    IF operation \in TransactionOps THEN AddIfTracked(balances, coin, amount)
    ELSE IF operation \in TransferOps THEN AddIfTracked(balances, coin, amount)
    ELSE IF operation \in ProfitSharingOps THEN AddIfTracked(balances, coin, amount)
    ELSE IF operation \in LeadCreateOps THEN AddIfTracked(balances, coin, amount)
    ELSE balances

\* the enhanced replay loop over the first k rows: final state and history
RECURSIVE EnhReplay(_, _)
EnhReplay(rows, k) ==
    IF k = 0
    THEN [balances |-> ZeroBalances, history |-> <<>>]
    ELSE LET before == EnhReplay(rows, k - 1)
             row == rows[k]
         IN  IF row.Account = "Spot Lead"
             THEN before
             ELSE LET after == EnhApplyOperation(before.balances, row.Operation,
                                                 row.Coin, row.Change)
                  IN  [balances |-> after,
                       history |-> Append(before.history, Snapshot(after, row))]

\* the enhanced loop over date_range: day_balances selects the rows up to the end
\* of the day, but the values are read from self.asset_balances
RECURSIVE EnhDailyValues(_, _, _, _)
EnhDailyValues(history, balances, date, end_date) ==
    IF date > end_date
    THEN <<>>
    ELSE LET day_balances == HistoryUpTo(history, EndOfDay(date)) IN
         <<IF day_balances # <<>>
           THEN DailyRow(date, balances)
           ELSE DailyRow(date, ZeroBalances)>>
             \o EnhDailyValues(history, balances, date + 1, end_date)

\* analyze_transactions of the enhanced analyzer: sort, replay, daily values
EnhAnalyzeTransactions ==
    /\ pc = "loaded"
    /\ \E sorted \in sort_values(raw_data) :
        LET replayed == EnhReplay(sorted, Len(sorted))
            timestamps == AllTimestamps(replayed.history, <<>>)
        IN  /\ raw_data' = sorted
            /\ asset_balances' = replayed.balances
            /\ balance_history' = replayed.history
            /\ daily_portfolio_value' =
                  IF replayed.history = <<>>
                  THEN None
                  ELSE DataFrame(EnhDailyValues(replayed.history, replayed.balances,
                                                DateOf(SetMin(timestamps)),
                                                DateOf(SetMax(timestamps))))
    /\ pos' = Len(raw_data)
    /\ pc' = "enh_valued"
    /\ UNCHANGED <<spot_lead_balances, spot_lead_history, return_stats>>
    /\ UNCHANGED io_vars

-----------------------------------------------------------------------------
(* The price oracle queried on its own                                      *)

\* a price file (or none) and no lookup made yet
OracleInit ==
    /\ raw_data = <<>>
    /\ pc = "oracle"
    /\ pos = 0
    /\ asset_balances = EmptyDict
    /\ spot_lead_balances = EmptyDict
    /\ balance_history = <<>>
    /\ spot_lead_history = <<>>
    /\ daily_portfolio_value = None
    /\ btc_price_data \in {None} \cup PriceFrames
    /\ price_query = NoQuery
    /\ price_answer = NoAnswer
    /\ csv_file = NoFile
    /\ files = {}
    /\ transactions = <<>>
    /\ NoOutputs
    /\ ApiIdle

\* one call self._get_btc_price_for_date(date)
GetBtcPriceForDate ==
    /\ pc = "oracle"
    /\ \E date \in PriceQueries :
        /\ price_query' = date
        /\ price_answer' = get_btc_price_for_date(btc_price_data, date)
    /\ UNCHANGED <<raw_data, pc, pos, asset_balances, spot_lead_balances,
                   balance_history, spot_lead_history, daily_portfolio_value,
                   btc_price_data, csv_file, files, transactions, return_stats>>
    /\ UNCHANGED <<table_vars, api_vars>>

OracleNext == GetBtcPriceForDate

OracleSpec == OracleInit /\ [][OracleNext]_vars

Next ==
    \/ SortAndReset
    \/ ReplayStep
    \/ CalculateDailyPortfolioValue
    \/ EnhAnalyzeTransactions

Spec == Init /\ [][Next]_vars

LedgerSpec == LedgerInit /\ [][Next]_vars

-----------------------------------------------------------------------------
(* main: load_data, analyze_transactions, generate_report,                  *)
(* generate_pyfolio_data, save_results, plot_results                        *)

\* the UTC_Time of a row pd.to_datetime(errors='coerce') could not parse
NaT == 0 - 1

\* RunSpec: ledger files whose rows are deposits at noon of day 0, half a
\* second after the cutoff of day 0, or with an unparseable timestamp
CsvTimes == {NaT, Seconds(12 * 3600), EndOfDay(0) + 1}

CsvEvents ==
    [UTC_Time : CsvTimes, Account : {"Spot"}, Operation : {"Deposit"},
     Coin : {"USDT", "BTC", "USD"}, Change : {5}]

\* ExportSpec: ledger files of trades and their currency legs; day 1 has a
\* buy and legs only
Trade(day, account, operation, coin, change) ==
    [UTC_Time |-> day * DayTicks + Seconds(12 * 3600), Account |-> account,
     Operation |-> operation, Coin |-> coin, Change |-> change]

TradeEvents ==
    {Trade(0, "Spot", "Transaction Buy", "BTC", 1),
     Trade(0, "Spot Lead", "Transaction Buy", "BTC", 1),
     Trade(0, "Spot", "Transaction Sold", "BTC", 0 - 1),
     Trade(0, "Spot", "Transaction Spend", "USDT", 0 - 30000),
     Trade(0, "Spot", "Transaction Spend", "USDT", 0 - 31000),
     Trade(0, "Spot Lead", "Transaction Spend", "USDT", 0 - 30000),
     Trade(0, "Spot", "Transaction Revenue", "USDT", 30000),
     Trade(1, "Spot", "Transaction Buy", "BTC", 1),
     Trade(1, "Spot", "Transaction Spend", "USDT", 0 - 31000),
     Trade(1, "Spot", "Transaction Revenue", "USDT", 31000)}

\* what load_btc_price_data leaves in the two specifications: no usable file,
\* a file without valid rows, a file with prices
RunPriceFrames == {None, DataFrame(<<PriceRow(0, 30000)>>)}

ExportPriceFrames ==
    {None, DataFrame(<<>>), DataFrame(<<PriceRow(0, 30000), PriceRow(1, 32000)>>)}

\* the state before main calls load_data
StartWith(events, maxlen, columns, price_frames) ==
    /\ \E n \in 0..maxlen : \E rows \in [1..n -> events] : \E columns_ok \in columns :
            csv_file = [columns_ok |-> columns_ok, rows |-> Labelled(rows)]
    /\ btc_price_data \in price_frames
    /\ raw_data = <<>>
    /\ pc = "start"
    /\ pos = 0
    /\ asset_balances = EmptyDict
    /\ spot_lead_balances = EmptyDict
    /\ balance_history = <<>>
    /\ spot_lead_history = <<>>
    /\ daily_portfolio_value = None
    /\ price_query = NoQuery
    /\ price_answer = NoAnswer
    /\ files = {}
    /\ transactions = <<>>
    /\ NoOutputs
    /\ ApiIdle

RunInit == StartWith(CsvEvents, MaxCsvRows, BOOLEAN, RunPriceFrames)

ExportInit == StartWith(TradeEvents, MaxTrades, {TRUE}, ExportPriceFrames)

\* LegSpec: one day of BTC buys on Spot and of USDT spend legs of two sizes
LegEvents ==
    {Trade(0, "Spot", "Transaction Buy", "BTC", 1),
     Trade(0, "Spot", "Transaction Spend", "USDT", 0 - 30000),
     Trade(0, "Spot", "Transaction Spend", "USDT", 0 - 31000)}

LegPriceFrames == {DataFrame(<<PriceRow(0, 30000), PriceRow(1, 32000)>>)}

LegInit == StartWith(LegEvents, MaxLegRows, {TRUE}, LegPriceFrames)

\* the test for the required columns left out
ColumnsNotChecked(file) == TRUE

\* missing_columns is empty
RequiredColumnsPresent(file) == file.columns_ok

\* load_data returns True: the columns are there and iloc[0] finds a row
LoadSucceeds(file) == RequiredColumnsPresent(file) /\ file.rows # <<>>

\* self.raw_data[valid_time_mask]
ValidRows(rows) == SelectSeq(rows, LAMBDA row : row.UTC_Time # NaT)

\* load_data and the branch of main on its result
LoadData ==
    /\ pc = "start"
    /\ IF LoadSucceeds(csv_file)
       THEN /\ raw_data' = ValidRows(csv_file.rows)
            /\ pc' = "loaded"
       ELSE /\ UNCHANGED raw_data
            /\ pc' = "load_failed"
    /\ UNCHANGED <<pos, asset_balances, spot_lead_balances, balance_history,
                   spot_lead_history, daily_portfolio_value, return_stats>>
    /\ UNCHANGED io_vars

\* hasattr(self, 'return_stats'): _calculate_returns got past its first check
HasReturnStats == ~daily_portfolio_value.is_none /\ daily_portfolio_value.rows # <<>>

\* the day generate_report asks the price for: datetime.now().date()
Today == Date(MaxPriceDay)

\* generate_report: with return_stats it values each non-zero BTC balance at
\* today's price; an exception of the lookup ends the run
GenerateReport ==
    /\ pc = "valued"
    /\ IF /\ HasReturnStats
          /\ Get(asset_balances, "BTC") # 0 \/ Get(spot_lead_balances, "BTC") # 0
          /\ get_btc_price_for_date(btc_price_data, Today).raised
       THEN pc' = "crashed"
       ELSE pc' = "reported"
    /\ UNCHANGED <<raw_data, pos, asset_balances, spot_lead_balances, balance_history,
                   spot_lead_history, daily_portfolio_value, return_stats>>
    /\ UNCHANGED io_vars

\* the raw_data rows of one day that are USDT legs of the given operation
\* outside 'Spot Lead', in frame order
SameDayUsdt(rows, date, operation) ==
    SelectSeq(rows, LAMBDA row : /\ DateOf(row.UTC_Time) = date
                                 /\ row.Coin = "USDT"
                                 /\ row.Operation = operation
                                 /\ row.Account # "Spot Lead")

\* the amount of the leg returned as it is
LegUnsigned(usdt_amount) == usdt_amount

\* return -usdt_amount
LegVolume(usdt_amount) == 0 - usdt_amount

\* _find_matching_usdt_spend: the first same-day leg, else amount times price
find_matching_usdt_spend(rows, price_data, date, btc_amount) ==
    LET same_day_usdt == SameDayUsdt(rows, date, "Transaction Spend")
        btc_price == get_btc_price_for_date(price_data, Date(date))
    IN  IF same_day_usdt # <<>> THEN Returned(LegVolume(same_day_usdt[1].Change))
        ELSE IF btc_price.raised THEN Raised
        ELSE Returned(btc_amount * btc_price.value)

\* _find_matching_usdt_revenue
find_matching_usdt_revenue(rows, price_data, date, btc_amount) ==
    LET same_day_usdt == SameDayUsdt(rows, date, "Transaction Revenue")
        btc_price == get_btc_price_for_date(price_data, Date(date))
    IN  IF same_day_usdt # <<>> THEN Returned(LegVolume(same_day_usdt[1].Change))
        ELSE IF btc_price.raised THEN Raised
        ELSE Returned((0 - btc_amount) * btc_price.value)

\* transactions.append({...}) behind the near-zero filter, or nothing when the
\* volume could not be computed (except: continue); row is the label of the
\* ledger row the entry was made from
Collected(row, txn_shares, txn_volume) ==
    IF txn_volume.raised THEN <<>>
    ELSE IF txn_shares.num # 0 /\ txn_volume.value # 0
    THEN <<[date |-> DateOf(row.UTC_Time), txn_shares |-> txn_shares,
            txn_volume |-> txn_volume.value, row |-> row.idx]>>
    ELSE <<>>

\* txn_shares = -amount
NegatedShares(amount) == 0 - amount

\* the body of the loop of _generate_transactions_pyfolio for one row
TransactionOf(rows, price_data, row) ==
    IF row.Account = "Spot Lead" \/ row.Operation \notin TransactionOps THEN <<>>
    ELSE IF row.Coin # "BTC" THEN <<>>
    ELSE IF row.Operation = "Transaction Buy"
    THEN Collected(row, Ratio(row.Change, 1),
                   find_matching_usdt_spend(rows, price_data, DateOf(row.UTC_Time), row.Change))
    ELSE IF row.Operation = "Transaction Sold"
    THEN Collected(row, Ratio(NegatedShares(row.Change), 1),
                   find_matching_usdt_revenue(rows, price_data, DateOf(row.UTC_Time), row.Change))
    ELSE <<>>

\* the body of the loop of _generate_transactions_from_usdt for one row
TransactionFromUsdt(price_data, row) ==
    IF \/ row.Coin # "USDT"
       \/ row.Operation \notin {"Transaction Spend", "Transaction Revenue"}
       \/ row.Account = "Spot Lead"
    THEN <<>>
    ELSE LET btc_price == get_btc_price_for_date(price_data, Date(DateOf(row.UTC_Time)))
             txn_volume == LegVolume(row.Change)
         IN  IF btc_price.raised THEN <<>>
             ELSE Collected(row,
                            IF btc_price.value > 0 THEN Ratio(txn_volume, btc_price.value)
                                                   ELSE Ratio(0, 1),
                            Returned(txn_volume))

\* one loop over the first k rows of the frame
RECURSIVE CollectBtc(_, _, _)
CollectBtc(rows, price_data, k) ==
    IF k = 0 THEN <<>>
    ELSE CollectBtc(rows, price_data, k - 1) \o TransactionOf(rows, price_data, rows[k])

RECURSIVE CollectFromUsdt(_, _, _)
CollectFromUsdt(rows, price_data, k) ==
    IF k = 0 THEN <<>>
    ELSE CollectFromUsdt(rows, price_data, k - 1) \o TransactionFromUsdt(price_data, rows[k])

\* the list _generate_transactions_pyfolio ends with, before the grouping by date
generate_transactions(rows, price_data) ==
    LET found == CollectBtc(rows, price_data, Len(rows))
    IN  IF found # <<>> THEN found ELSE CollectFromUsdt(rows, price_data, Len(rows))

\* returns_df is not empty after dropna: pct_change is NaN on the first row
\* and where a value of 0 follows a value of 0
HasReturns(daily_rows) ==
    \E k \in 2..Len(daily_rows) :
        ~(PortfolioValue(daily_rows[k - 1]) = 0 /\ PortfolioValue(daily_rows[k]) = 0)

\* the float sum of two quotients
AddRatio(a, b) ==
    IF a.den = b.den THEN Ratio(a.num + b.num, a.den)
    ELSE Ratio(a.num * b.den + b.num * a.den, a.den * b.den)

\* agg 'sum' of txn_volume over the first k entries that carry the date
RECURSIVE SumVolume(_, _, _)
SumVolume(entries, date, k) ==
    IF k = 0 THEN 0
    ELSE SumVolume(entries, date, k - 1)
         + (IF entries[k].date = date THEN entries[k].txn_volume ELSE 0)

\* agg 'sum' of txn_shares over the first k entries that carry the date
RECURSIVE SumShares(_, _, _)
SumShares(entries, date, k) ==
    IF k = 0 THEN Ratio(0, 1)
    ELSE IF entries[k].date # date THEN SumShares(entries, date, k - 1)
    ELSE IF \A j \in 1..(k - 1) : entries[j].date # date THEN entries[k].txn_shares
    ELSE AddRatio(SumShares(entries, date, k - 1), entries[k].txn_shares)

\* the groups of groupby('date') from the given date on, in the order of the keys
RECURSIVE GroupsFrom(_, _, _)
GroupsFrom(entries, date, end_date) ==
    IF date > end_date THEN <<>>
    ELSE (IF \E k \in 1..Len(entries) : entries[k].date = date
          THEN <<[date |-> date,
                  txn_volume |-> SumVolume(entries, date, Len(entries)),
                  txn_shares |-> SumShares(entries, date, Len(entries))]>>
          ELSE <<>>)
         \o GroupsFrom(entries, date + 1, end_date)

\* transactions_df.groupby('date').agg({'txn_volume': 'sum', 'txn_shares': 'sum'}),
\* or the empty frame when nothing was collected
groupby_date(entries) ==
    IF entries = <<>> THEN <<>>
    ELSE GroupsFrom(entries,
                    SetMin({entries[k].date : k \in 1..Len(entries)}),
                    SetMax({entries[k].date : k \in 1..Len(entries)}))

\* 'other_balance': the balances outside USDT, BTC, ETH, BNB, SOL and USD
other_balance(balances) == Get(balances, "BUSD")

\* pos_data of _generate_positions_pyfolio for one row of daily_portfolio_value,
\* after .abs(); positions_pyfolio.csv keeps the columns BTC and cash
PositionRow(row) ==
    [date |-> row.date,
     USDT |-> Abs(Get(row.balances, "USDT")),
     USD  |-> Abs(other_balance(row.balances)),
     cash |-> Abs(Get(row.balances, "USDT") + other_balance(row.balances)),
     BTC  |-> Abs(Get(row.balances, "BTC")
                  * get_btc_price_for_date(btc_price_data, Timestamp(row.date)).value),
     ETH  |-> Abs(Get(row.balances, "ETH") * price_estimate("ETH")),
     BNB  |-> Abs(Get(row.balances, "BNB") * price_estimate("BNB")),
     SOL  |-> Abs(Get(row.balances, "SOL") * price_estimate("SOL"))]

\* the frame _generate_positions_pyfolio builds, in the order of the dates
generate_positions(daily_rows) ==
    [k \in 1..Len(daily_rows) |-> PositionRow(daily_rows[k])]

\* dropna(subset=['returns']): the rows whose return is not NaN
DropNa(rows) == SelectSeq(rows, LAMBDA row : ~IsNaN(row.returns))

\* returns_df of _generate_returns_pyfolio: date and daily_return of each row
\* of daily_portfolio_value, the rows without a return dropped
generate_returns(daily_rows, daily_return) ==
    DropNa([k \in 1..Len(daily_rows) |->
                [date |-> daily_rows[k].date, returns |-> daily_return[k]]])

\* generate_pyfolio_data
GeneratePyfolioData ==
    /\ pc = "reported"
    /\ pc' = "exported"
    /\ IF daily_portfolio_value.is_none \/ daily_portfolio_value.rows = <<>>
       THEN UNCHANGED <<files, transactions, table_vars>>
       ELSE /\ transactions' = generate_transactions(raw_data, btc_price_data)
            /\ transactions_pyfolio' =
                    groupby_date(generate_transactions(raw_data, btc_price_data))
            /\ positions_pyfolio' = generate_positions(daily_portfolio_value.rows)
            /\ returns_pyfolio' =
                    generate_returns(daily_portfolio_value.rows, return_stats.daily_return)
            /\ files' = files \cup {"transactions_pyfolio.csv", "positions_pyfolio.csv"}
                        \cup (IF HasReturns(daily_portfolio_value.rows)
                              THEN {"returns_pyfolio.csv"} ELSE {})
    /\ UNCHANGED <<raw_data, pos, asset_balances, spot_lead_balances, balance_history,
                   spot_lead_history, daily_portfolio_value, btc_price_data,
                   price_query, price_answer, csv_file, return_stats>>
    /\ UNCHANGED api_vars

\* save_results
SaveResults ==
    /\ pc = "exported"
    /\ pc' = "saved"
    /\ files' = files \cup {"final_balances.csv"}
                \cup (IF ~daily_portfolio_value.is_none
                      THEN {"portfolio_value_with_prices.csv"} ELSE {})
                \cup (IF ~btc_price_data.is_none /\ btc_price_data.rows # <<>>
                      THEN {"btc_price_data.csv"} ELSE {})
                \cup (IF HasReturnStats THEN {"return_statistics.csv"} ELSE {})
    /\ UNCHANGED <<raw_data, pos, asset_balances, spot_lead_balances, balance_history,
                   spot_lead_history, daily_portfolio_value, btc_price_data,
                   price_query, price_answer, csv_file, transactions, return_stats>>
    /\ UNCHANGED <<table_vars, api_vars>>

\* plot_results: the picture is saved unless there is no daily value or the
\* plotting raises (caught and logged)
PlotResults ==
    /\ pc = "saved"
    /\ pc' = "done"
    /\ \E saved \in BOOLEAN :
        files' = IF saved /\ HasReturnStats
                 THEN files \cup {"portfolio_analysis_enhanced.png"} ELSE files
    /\ UNCHANGED <<raw_data, pos, asset_balances, spot_lead_balances, balance_history,
                   spot_lead_history, daily_portfolio_value, btc_price_data,
                   price_query, price_answer, csv_file, transactions, return_stats>>
    /\ UNCHANGED <<table_vars, api_vars>>

RunNext ==
    \/ LoadData
    \/ SortAndReset
    \/ ReplayStep
    \/ CalculateDailyPortfolioValue
    \/ GenerateReport
    \/ GeneratePyfolioData
    \/ SaveResults
    \/ PlotResults

RunSpec == RunInit /\ [][RunNext]_vars

ExportSpec == ExportInit /\ [][RunNext]_vars

LegSpec == LegInit /\ [][RunNext]_vars

-----------------------------------------------------------------------------
(* _calculate_returns on its own                                            *)

\* the portfolio values of the series of ReturnsSpec
SeriesValues == {0, 99, 100, 110, 121}

\* a row of daily_portfolio_value worth the given value, held in USDT
ValueRow(date, value) == DailyRow(date, [ZeroBalances EXCEPT !["USDT"] = value])

\* daily value series of consecutive days from day 0
SeriesFrames(n) ==
    {DataFrame([k \in 1..n |-> ValueRow(k - 1, values[k])]) :
        values \in [1..n -> SeriesValues]}

\* the analyzer with a daily value series, before _calculate_returns
ReturnsInit ==
    /\ \E n \in 1..MaxSeriesLen : daily_portfolio_value \in SeriesFrames(n)
    /\ pc = "returns"
    /\ raw_data = <<>>
    /\ pos = 0
    /\ asset_balances = EmptyDict
    /\ spot_lead_balances = EmptyDict
    /\ balance_history = <<>>
    /\ spot_lead_history = <<>>
    /\ btc_price_data = None
    /\ price_query = NoQuery
    /\ price_answer = NoAnswer
    /\ csv_file = NoFile
    /\ files = {}
    /\ transactions = <<>>
    /\ NoOutputs
    /\ ApiIdle

\* one call self._calculate_returns()
CalculateReturns ==
    /\ pc = "returns"
    /\ pc' = "returned"
    /\ return_stats' = ReturnsOf(daily_portfolio_value)
    /\ UNCHANGED <<raw_data, pos, asset_balances, spot_lead_balances, balance_history,
                   spot_lead_history, daily_portfolio_value>>
    /\ UNCHANGED io_vars

ReturnsNext == CalculateReturns

ReturnsSpec == ReturnsInit /\ [][ReturnsNext]_vars

-----------------------------------------------------------------------------
(* binance_transactions.py: BinanceTransactions._get_transactions_with_pagination *)
(* One action is one pass of the while loop, by the answer of the exchange   *)
(* to fetch_my_trades. all_transactions is the length of the list before the  *)
(* duplicates are removed.                                                    *)

\* limit=1000
limit == 1000

max_pages == 50

\* the sizes of a page shorter than the limit
ShortPages == {1, limit - 1}

\* an analyzer that has done nothing
AnalyzerIdle ==
    /\ raw_data = <<>>
    /\ pos = 0
    /\ asset_balances = EmptyDict
    /\ spot_lead_balances = EmptyDict
    /\ balance_history = <<>>
    /\ spot_lead_history = <<>>
    /\ daily_portfolio_value = None
    /\ btc_price_data = None
    /\ price_query = NoQuery
    /\ price_answer = NoAnswer
    /\ csv_file = NoFile
    /\ files = {}
    /\ transactions = <<>>
    /\ NoOutputs

\* the call has set all_transactions = [], page_count = 0 and enters the loop
PaginationInit ==
    /\ pc = "paging"
    /\ page_count = 0
    /\ all_transactions = 0
    /\ raw_transactions = <<>>
    /\ date_range = <<>>
    /\ positions_df = <<>>
    /\ AnalyzerIdle

\* the loop is about to send one more request
Requesting == pc = "paging" /\ page_count < MaxRequests

\* a page of limit records or more: taken, and the loop goes on unless
\* page_count has reached max_pages
FetchFullPage ==
    /\ Requesting
    /\ page_count' = page_count + 1
    /\ all_transactions' = all_transactions + limit
    /\ pc' = IF page_count + 1 >= max_pages THEN "paged" ELSE "paging"
    /\ UNCHANGED <<raw_transactions, date_range, positions_df>>
    /\ UNCHANGED analyzer_vars

\* a page of fewer records than limit: taken, and the loop ends
FetchShortPage ==
    /\ Requesting
    /\ page_count' = page_count + 1
    /\ \E n \in ShortPages : all_transactions' = all_transactions + n
    /\ pc' = "paged"
    /\ UNCHANGED <<raw_transactions, date_range, positions_df>>
    /\ UNCHANGED analyzer_vars

\* an empty page, or an exception other than RateLimitExceeded: nothing is
\* taken and the loop ends
FetchNothing ==
    /\ Requesting
    /\ \E answer \in {"empty page", "error"} :
            /\ page_count' = page_count + 1
            /\ pc' = "paged"
    /\ UNCHANGED <<all_transactions, raw_transactions, date_range, positions_df>>
    /\ UNCHANGED analyzer_vars

\* ccxt.RateLimitExceeded: sleep and continue
FetchRateLimited ==
    /\ Requesting
    /\ page_count' = page_count + 1
    /\ pc' = "paging"
    /\ UNCHANGED <<all_transactions, raw_transactions, date_range, positions_df>>
    /\ UNCHANGED analyzer_vars

PaginationNext ==
    \/ FetchFullPage
    \/ FetchShortPage
    \/ FetchNothing
    \/ FetchRateLimited

PaginationSpec == PaginationInit /\ [][PaginationNext]_vars

-----------------------------------------------------------------------------
(* binance_transactions.py: BinanceTransactions._calculate_daily_positions  *)

initial_usdt == 10000

\* the trades of the exchange: at noon of a day, of one unit for 1000 USDT
ApiTrades ==
    [datetime : {d * DayTicks + Seconds(12 * 3600) : d \in 0..MaxApiDay},
     symbol : {"BTC/USDT", "ETH/USDT", "ETH/BTC"},
     side : {"buy", "sell"},
     amount : {1},
     cost : {1000}]

\* pd.date_range(start=btc_price_df.index.min(), end=btc_price_df.index.max(), freq='D')
DateRange(first, last) == [k \in 1..(last - first + 1) |-> first + k - 1]

\* the call _calculate_daily_positions(raw_transactions, btc_price_df) on a
\* price frame that is not empty
PositionsInit ==
    /\ pc = "positions"
    /\ \E n \in 0..MaxApiTrades : raw_transactions \in [1..n -> ApiTrades]
    /\ \E first \in 0..MaxApiDay : \E last \in first..MaxApiDay :
            date_range = DateRange(first, last)
    /\ positions_df = <<>>
    /\ page_count = 0
    /\ all_transactions = 0
    /\ AnalyzerIdle

\* sorted(raw_transactions, key=lambda x: x['datetime']): a stable sort
RECURSIVE sorted(_)
sorted(txs) ==
    IF txs = <<>> THEN <<>>
    ELSE LET rest == sorted(SubSeq(txs, 1, Len(txs) - 1))
             last == txs[Len(txs)]
         IN  SelectSeq(rest, LAMBDA tx : tx.datetime <= last.datetime)
                 \o <<last>>
                 \o SelectSeq(rest, LAMBDA tx : tx.datetime > last.datetime)

\* symbol.endswith('/USDT') for the symbols of the model
EndsWithUsdt(symbol) == symbol \in {"BTC/USDT", "ETH/USDT"}

\* the body of the loop over daily_transactions for one trade
ApplyTrade(holding, tx) ==
    IF tx.symbol = "BTC/USDT"
    THEN IF tx.side = "buy"
         THEN [BTC |-> holding.BTC + tx.amount, USDT |-> holding.USDT - tx.cost]
         ELSE [BTC |-> holding.BTC - tx.amount, USDT |-> holding.USDT + tx.cost]
    ELSE IF EndsWithUsdt(tx.symbol)
    THEN IF tx.side = "buy"
         THEN [holding EXCEPT !.USDT = holding.USDT - tx.cost]
         ELSE [holding EXCEPT !.USDT = holding.USDT + tx.cost]
    ELSE holding

RECURSIVE ApplyTrades(_, _)
ApplyTrades(holding, txs) ==
    IF txs = <<>> THEN holding
    ELSE ApplyTrades(ApplyTrade(holding, Head(txs)), Tail(txs))

\* daily_transactions: the trades whose date is the date of the grid day
DailyTransactions(txs, date) == SelectSeq(txs, LAMBDA tx : DateOf(tx.datetime) = date)

\* the loop over date_range from its k-th day on, current_btc and
\* current_usdt being carried in holding
RECURSIVE DailyPositions(_, _, _, _)
DailyPositions(txs, dates, k, holding) ==
    IF k > Len(dates) THEN <<>>
    ELSE LET current == ApplyTrades(holding, DailyTransactions(txs, dates[k]))
         IN  <<[date |-> dates[k], BTC |-> current.BTC, USDT |-> current.USDT]>>
                 \o DailyPositions(txs, dates, k + 1, current)

calculate_daily_positions(txs, dates) ==
    DailyPositions(sorted(txs), dates, 1, [BTC |-> 0, USDT |-> initial_usdt])

\* the whole call
CalculateDailyPositions ==
    /\ pc = "positions"
    /\ pc' = "positioned"
    /\ positions_df' = calculate_daily_positions(raw_transactions, date_range)
    /\ UNCHANGED <<page_count, all_transactions, raw_transactions, date_range>>
    /\ UNCHANGED analyzer_vars

PositionsNext == CalculateDailyPositions

PositionsSpec == PositionsInit /\ [][PositionsNext]_vars

-----------------------------------------------------------------------------
(* Properties *)

\* the row the replay loop applies next, and the state it is applied to
ReplayEnabled == pc = "replay" /\ pos < Len(raw_data)
NextRow == raw_data[pos + 1]
TargetBalances(account) ==
    IF account = "Spot Lead" THEN spot_lead_balances ELSE asset_balances
TargetHistory(account) ==
    IF account = "Spot Lead" THEN spot_lead_history ELSE balance_history
\* the same two after the step
TargetBalancesAfter(account) ==
    IF account = "Spot Lead" THEN spot_lead_balances' ELSE asset_balances'
TargetHistoryAfter(account) ==
    IF account = "Spot Lead" THEN spot_lead_history' ELSE balance_history'

\* sum of Change over a set of row positions of raw_data
RECURSIVE SumChange(_)
SumChange(S) ==
    IF S = {}
    THEN 0
    ELSE LET k == CHOOSE k \in S : TRUE IN raw_data[k].Change + SumChange(S \ {k})

\* rows of one scope (lead or main) among the first n rows
ScopeRows(lead, n) == {k \in 1..n : (raw_data[k].Account = "Spot Lead") = lead}

\* every asset symbol a ledger of the model can name
LedgerCoins == TrackedAssets \cup {"ADA"}

\* operation names with a branch in the replay loop
BranchOps ==
    TransactionOps \cup TransferOps \cup ProfitSharingOps \cup LeadCreateOps
        \cup LeadTransferOps

\* C1: after any prefix of the replay, for both scopes and every asset symbol the
\* running balance equals the sum of Change over all rows of that asset and scope
\* processed so far.
BalanceIsSumOfAllChanges ==
    pc \in {"replay", "valued"} =>
        \A lead \in BOOLEAN, asset \in LedgerCoins :
            Get(IF lead THEN spot_lead_balances ELSE asset_balances, asset)
                = SumChange({k \in ScopeRows(lead, pos) : raw_data[k].Coin = asset})

\* C2: the rows replayed so far were applied in non-decreasing timestamp order,
\* and so were the snapshots appended to either history.
NonDecreasing(history) ==
    \A m, n \in 1..Len(history) : m < n => history[m].timestamp <= history[n].timestamp

ReplayInTimestampOrder ==
    pc \in {"replay", "valued"} =>
        /\ \A j, k \in 1..pos : j < k => raw_data[j].UTC_Time <= raw_data[k].UTC_Time
        /\ NonDecreasing(balance_history)
        /\ NonDecreasing(spot_lead_history)
        /\ Len(balance_history) + Len(spot_lead_history) = pos

\* C2 witness: a ledger given out of timestamp order has been replayed in full
ReplayedReorderedLedger ==
    /\ pc = "valued"
    /\ pos >= 2
    /\ \E j, k \in 1..pos :
        /\ j < k
        /\ raw_data[j].idx > raw_data[k].idx
        /\ raw_data[j].UTC_Time < raw_data[k].UTC_Time

\* C3: rows with equal timestamps are replayed in their file order.
TiesInFileOrder ==
    pc \in {"replay", "valued"} =>
        \A j, k \in 1..Len(raw_data) :
            (j < k /\ raw_data[j].UTC_Time = raw_data[k].UTC_Time)
                => raw_data[j].idx < raw_data[k].idx

\* the balance of the most recently appended snapshot with timestamp <= T, which
\* must also be a latest one; 0 when there is none
SnapshotsUpTo(history, T) == {n \in 1..Len(history) : history[n].timestamp <= T}

LastSnapshotValue(history, T, asset) ==
    IF SnapshotsUpTo(history, T) = {}
    THEN 0
    ELSE history[SetMax(SnapshotsUpTo(history, T))].balances[asset]

RowsUpTo(lead, T, asset, ops) ==
    {k \in ScopeRows(lead, Len(raw_data)) :
        /\ raw_data[k].UTC_Time <= T
        /\ raw_data[k].Coin = asset
        /\ raw_data[k].Operation \in ops}

\* the balances the rows with timestamp <= T produce: per scope the sum of the
\* applied changes, the two scopes combined as the analyzer combines them
ProducedUpTo(T, asset) ==
    IF pc = "enh_valued"
    THEN SumChange(RowsUpTo(FALSE, T, asset, BranchOps \ LeadTransferOps))
    ELSE Max0(SumChange(RowsUpTo(FALSE, T, asset, BranchOps)))
            + Max0(SumChange(RowsUpTo(TRUE, T, asset, BranchOps)))

\* C5: every day of the daily series (of either analyzer) is valued with the
\* balances produced by the rows with timestamp <= that day's 23:59:59, and a
\* day on which no row falls is valued with the balances of the preceding day.
DayValuedAtItsCutoff ==
    pc \in {"valued", "enh_valued"} =>
        \A n \in 1..Len(daily_portfolio_value.rows) :
            LET row == daily_portfolio_value.rows[n] IN
            /\ \A asset \in TrackedAssets :
                row.balances[asset] = ProducedUpTo(EndOfDay(row.date), asset)
            /\ (/\ n > 1
                /\ \A k \in 1..Len(raw_data) : DateOf(raw_data[k].UTC_Time) # row.date)
                    => row.balances = daily_portfolio_value.rows[n - 1].balances

\* dates of the rows of the ledger
LedgerDates == {DateOf(raw_data[k].UTC_Time) : k \in 1..Len(raw_data)}

\* C6: for a non-empty ledger the daily series has exactly one row for every
\* calendar day from the date of the earliest row to the date of the latest.
DenseDailyGrid ==
    (pc = "valued" /\ raw_data # <<>>) =>
        /\ ~daily_portfolio_value.is_none
        /\ Len(daily_portfolio_value.rows) = SetMax(LedgerDates) - SetMin(LedgerDates) + 1
        /\ \A n \in 1..Len(daily_portfolio_value.rows) :
            daily_portfolio_value.rows[n].date = SetMin(LedgerDates) + n - 1

AccountsSeen == {raw_data[k].Account : k \in 1..Len(raw_data)}

EveryKindIsApplied ==
    [][(/\ ReplayEnabled
        /\ NextRow.Operation \in BranchOps \cup FuturesOps
        /\ NextRow.Coin \in TrackedAssets)
            => TargetBalancesAfter(NextRow.Account)[NextRow.Coin]
                    = TargetBalances(NextRow.Account)[NextRow.Coin] + NextRow.Change]_vars

\* C10: a row of an asset outside the initial tracked set, with an operation the
\* replay has a branch for, leaves the scope's state holding a balance for that
\* asset, increased by the row's Change.
UntrackedAssetBecomesTracked ==
    [][(/\ ReplayEnabled
        /\ NextRow.Operation \in BranchOps
        /\ NextRow.Coin \notin TrackedAssets)
            => /\ NextRow.Coin \in DOMAIN TargetBalancesAfter(NextRow.Account)
               /\ Get(TargetBalancesAfter(NextRow.Account), NextRow.Coin)
                    = Get(TargetBalances(NextRow.Account), NextRow.Coin) + NextRow.Change]_vars

LookupInSeries ==
    /\ price_query # NoQuery
    /\ ~btc_price_data.is_none
    /\ btc_price_data.rows # <<>>

\* day distance from the queried date to the k-th row of the price series
Distance(k) == Abs(btc_price_data.rows[k].date - price_query.day)

\* the positions of the series at the minimal distance from the queried date
NearestRows ==
    {k \in 1..Len(btc_price_data.rows) :
        \A j \in 1..Len(btc_price_data.rows) : Distance(k) <= Distance(j)}

\* C12: with a non-empty price series the lookup returns the price stored for
\* the queried date when the date is in the series, and otherwise the price of
\* a series date at minimal day distance, the minimum taken over the whole
\* series (also before the first and after the last date).
NearestKnownPrice ==
    LookupInSeries =>
        /\ ~price_answer.raised
        /\ \E k \in NearestRows : price_answer.value = btc_price_data.rows[k].close

\* the queried date is absent and two series dates are equally near to it
TieAt(j, k) ==
    /\ j \in NearestRows
    /\ k \in NearestRows
    /\ btc_price_data.rows[j].date < btc_price_data.rows[k].date

\* C13 as stated: when the queried date is absent and two series dates are at
\* the same minimal distance, the lookup returns the price of the earlier date.
EarlierDateWinsTie ==
    LookupInSeries =>
        \A j, k \in 1..Len(btc_price_data.rows) :
            TieAt(j, k) => (~price_answer.raised
                            /\ price_answer.value = btc_price_data.rows[j].close)

\* C13 amended: on a series in ascending or descending date order, the lookup
\* returns the price of the later of two equally near dates.
LaterDateWinsTie ==
    (/\ LookupInSeries
     /\ IsMonotonicIncreasing(btc_price_data.rows) \/ IsMonotonicDecreasing(btc_price_data.rows))
        => \A j, k \in 1..Len(btc_price_data.rows) :
            TieAt(j, k) => (~price_answer.raised
                            /\ price_answer.value = btc_price_data.rows[k].close)

\* the series day 0 -> 30000, day 2 -> 32000 queried for day 1 gives 32000
TieQueried ==
    /\ btc_price_data = DataFrame(<<PriceRow(0, 30000), PriceRow(2, 32000)>>)
    /\ price_query.kind # "none"
    /\ price_query.day = 1
    /\ price_answer = Returned(32000)

\* C14: the lookup never raises: for every date, from every call site, it
\* returns a positive number, and with a loaded but empty series it
\* returns the estimate it returns without a series.
LookupNeverRaises ==
    price_query # NoQuery =>
        /\ ~price_answer.raised
        /\ price_answer.value > 0
        /\ (btc_price_data.is_none \/ btc_price_data.rows = <<>>)
                => price_answer.value = EstimatePrice(price_query.day)

\* the run has not got past a failed or pending load
NotPastLoad == pc \in {"start", "load_failed"}

\* nothing has been replayed, valued, exported or saved
NothingProduced ==
    /\ files = {}
    /\ transactions = <<>>
    /\ balance_history = <<>>
    /\ spot_lead_history = <<>>
    /\ daily_portfolio_value = None

\* C15: when a required column is absent from the ledger file, loading fails
\* and the run stops before replay, valuation and export: no output table and
\* no result file is written.
MissingColumnAborts ==
    ~csv_file.columns_ok => (NotPastLoad /\ NothingProduced)

\* a file with rows but without a required column has been refused
MissingColumnRefused ==
    /\ pc = "load_failed"
    /\ ~csv_file.columns_ok
    /\ ValidRows(csv_file.rows) # <<>>

\* C16: rows with an unparseable timestamp are dropped without failing the
\* load; when no row remains (all rows unparseable included) the load fails
\* and nothing is written.
UnparseableRowsDropped ==
    csv_file.columns_ok =>
        IF ValidRows(csv_file.rows) # <<>>
        THEN /\ pc # "load_failed"
             /\ pc # "start" =>
                    {raw_data[k].idx : k \in 1..Len(raw_data)}
                        = {csv_file.rows[k].idx : k \in {j \in 1..Len(csv_file.rows) :
                                                            csv_file.rows[j].UTC_Time # NaT}}
        ELSE NotPastLoad /\ NothingProduced

\* the export step is behind the run
Exported == pc \in {"exported", "saved", "done"}

PyfolioFiles == {"transactions_pyfolio.csv", "positions_pyfolio.csv", "returns_pyfolio.csv"}

\* C17: with an empty daily value series generate_pyfolio_data still writes
\* the three tables (transactions, positions, returns), each empty.
EmptySeriesStillExports ==
    (/\ Exported
     /\ daily_portfolio_value.is_none \/ daily_portfolio_value.rows = <<>>)
        => (PyfolioFiles \subseteq files /\ transactions = <<>>)

\* the rows of raw_data that are trades of BTC outside 'Spot Lead'
BtcTrades(operation) ==
    {k \in 1..Len(raw_data) : /\ raw_data[k].Operation = operation
                              /\ raw_data[k].Coin = "BTC"
                              /\ raw_data[k].Account # "Spot Lead"}

\* the same-day legs that can match the k-th row of raw_data
LegsOf(k, operation) == SameDayUsdt(raw_data, DateOf(raw_data[k].UTC_Time), operation)

\* the collected entries made from the k-th row of raw_data
EntriesOf(k) == {n \in 1..Len(transactions) : transactions[n].row = raw_data[k].idx}

SaleSharesNegative ==
    Exported =>
        \A k \in BtcTrades("Transaction Sold") :
            raw_data[k].Change < 0 =>
                /\ EntriesOf(k) # {}
                /\ \A n \in EntriesOf(k) :
                    /\ transactions[n].txn_shares.num < 0
                    /\ LegsOf(k, "Transaction Revenue") # <<>> =>
                        \E j \in 1..Len(LegsOf(k, "Transaction Revenue")) :
                            transactions[n].txn_volume
                                = 0 - LegsOf(k, "Transaction Revenue")[j].Change

\* the leg operation that matches a trade operation
LegOperation(operation) ==
    IF operation = "Transaction Buy" THEN "Transaction Spend" ELSE "Transaction Revenue"

\* C20: a buy or sale of BTC without a same-day matching USDT leg outside
\* 'Spot Lead' is still exported, with txn_volume = txn_shares * price of the day.
UnmatchedTradeBackfilled ==
    Exported =>
        \A k \in BtcTrades("Transaction Buy") \cup BtcTrades("Transaction Sold") :
            LegsOf(k, LegOperation(raw_data[k].Operation)) = <<>> =>
                LET price == get_btc_price_for_date(btc_price_data,
                                                    Date(DateOf(raw_data[k].UTC_Time)))
                IN  /\ EntriesOf(k) # {}
                    /\ ~price.raised
                    /\ \A n \in EntriesOf(k) :
                        transactions[n].txn_volume
                            = transactions[n].txn_shares.num * price.value

\* the rows of raw_data that are trades of BTC on the given day, on any account
BtcTradesOn(date) ==
    {k \in 1..Len(raw_data) :
        /\ raw_data[k].Coin = "BTC"
        /\ raw_data[k].Operation \in {"Transaction Buy", "Transaction Sold"}
        /\ DateOf(raw_data[k].UTC_Time) = date}

\* C21: the transactions table has a row for a day only if at least one trade
\* of BTC occurred that day; currency legs alone never create a row.
RowsOnlyOnBtcTradeDays ==
    \A k \in 1..Len(transactions_pyfolio) :
        BtcTradesOn(transactions_pyfolio[k].date) # {}


\* C22: no row of the emitted transactions table has a near-zero txn_volume or
\* txn_shares, also when the same-day trades it sums cancel out.
NoNearZeroRow ==
    \A k \in 1..Len(transactions_pyfolio) :
        /\ transactions_pyfolio[k].txn_volume # 0
        /\ transactions_pyfolio[k].txn_shares.num # 0


\* the sum of the Change column of a sequence of ledger rows
RECURSIVE SumOfLegs(_)
SumOfLegs(legs) ==
    IF legs = <<>> THEN 0 ELSE Head(legs).Change + SumOfLegs(Tail(legs))

\* the BTC trades of the given operation and day outside 'Spot Lead'
BtcTradesOfDay(operation, date) ==
    {k \in BtcTrades(operation) : DateOf(raw_data[k].UTC_Time) = date}

\* on the given day every BTC buy has its own spend leg and every BTC sale its
\* own revenue leg, and some trade has to share a day with another one
EachTradeHasOwnLeg(date) ==
    LET buys == BtcTradesOfDay("Transaction Buy", date)
        sales == BtcTradesOfDay("Transaction Sold", date)
    IN  /\ Cardinality(buys) = Len(SameDayUsdt(raw_data, date, "Transaction Spend"))
        /\ Cardinality(sales) = Len(SameDayUsdt(raw_data, date, "Transaction Revenue"))
        /\ Cardinality(buys) + Cardinality(sales) >= 2

\* C29: on a day with several BTC buys (or sales), each with its own spend
\* (revenue) leg, the day's aggregated txn_volume is the negated sum of the
\* day's legs: no leg is counted twice and none is ignored.
EachLegCountedOnce ==
    \A k \in 1..Len(transactions_pyfolio) :
        LET date == transactions_pyfolio[k].date IN
        EachTradeHasOwnLeg(date) =>
            transactions_pyfolio[k].txn_volume
                = 0 - (SumOfLegs(SameDayUsdt(raw_data, date, "Transaction Spend"))
                       + SumOfLegs(SameDayUsdt(raw_data, date, "Transaction Revenue")))


\* C23: in every row of the positions table cash is the non-negative sum of the
\* combined balances of USDT, BUSD and USD of that day, and cash plus the values
\* of the non-cash assets is the day's portfolio value.
CashCoversStableAssets ==
    \A k \in 1..Len(positions_pyfolio) :
        LET row == daily_portfolio_value.rows[k]
            position == positions_pyfolio[k]
        IN  /\ position.cash >= 0
            /\ position.cash = Get(row.balances, "USDT") + Get(row.balances, "BUSD")
                                + Get(row.balances, "USD")
            /\ position.cash + position.BTC + position.ETH + position.BNB + position.SOL
                    = PortfolioValue(row)


\* C24: for a daily value series of n >= 1 days the returns table holds exactly
\* the n - 1 days after the first, each with that day's daily_return.
ReturnsOfAllButFirstDay ==
    Exported =>
        \/ daily_portfolio_value.is_none
        \/ daily_portfolio_value.rows = <<>>
        \/ /\ Len(returns_pyfolio) = Len(daily_portfolio_value.rows) - 1
           /\ \A k \in 1..Len(returns_pyfolio) :
                /\ returns_pyfolio[k].date = daily_portfolio_value.rows[k + 1].date
                /\ returns_pyfolio[k].returns = return_stats.daily_return[k + 1]


\* the float x is the quotient num / den as IEEE division gives it
IsQuotient(x, num, den) ==
    IF den # 0 THEN x.den # 0 /\ x.num * den = num * x.den
    ELSE x.den = 0 /\ (x.num = 0 <=> num = 0)

\* the series of floats is the series of the given quotients, k being NaN
\* where nums[k] = dens[k] = 0
AreQuotients(series, nums, dens) ==
    /\ Len(series) = Len(nums)
    /\ \A k \in 1..Len(series) : IsQuotient(series[k], nums[k], dens[k])

\* the values _calculate_returns was given
SeriesOfValues == PortfolioValues(daily_portfolio_value.rows)

\* C25: daily_return[0] is undefined and daily_return[i] = V[i] / V[i-1] - 1 for
\* every i > 0; for V = [100, 110, 99, 121] the daily returns are
\* [null, 0.10, -0.10, 2/9] and the cumulative returns [0, 0.10, -0.01, 0.21].
DailyReturnFromPreviousDay ==
    pc = "returned" =>
        LET V == SeriesOfValues IN
        /\ Len(return_stats.daily_return) = Len(V)
        /\ IsNaN(return_stats.daily_return[1])
        /\ \A k \in 2..Len(V) :
              IsQuotient(return_stats.daily_return[k], V[k] - V[k - 1], V[k - 1])
        /\ V = <<100, 110, 99, 121>> =>
              /\ AreQuotients(return_stats.daily_return, <<0, 10, 0 - 10, 2>>, <<0, 100, 100, 9>>)
              /\ return_stats.has_cumulative_return
              /\ AreQuotients(return_stats.cumulative_return,
                              <<0, 10, 0 - 1, 21>>, <<100, 100, 100, 100>>)

\* _calculate_returns has run on the series [100, 110, 99, 121]
ExampleSeriesAnalysed ==
    pc = "returned" /\ SeriesOfValues = <<100, 110, 99, 121>>


\* the days on which (V[i] - running peak) / running peak is a number
DrawdownDays(V) == {k \in 1..Len(V) : Peak(V, k) # 0}

\* C26: for every non-empty daily value series produced by the valuation,
\* max_drawdown is a defined non-positive number, the minimum over the days of
\* (V[i] - running peak) / running peak, and 0 when the series never drops
\* below its running peak, a series of zeros included.
MaxDrawdownDefined ==
    ~return_stats.is_none =>
        LET V == SeriesOfValues
            max_drawdown == return_stats.max_drawdown
        IN  /\ max_drawdown.den > 0
            /\ max_drawdown.num <= 0
            /\ \A k \in DrawdownDays(V) : ~LessThan(Drawdown(V)[k], max_drawdown)
            /\ DrawdownDays(V) # {} =>
                  \E k \in DrawdownDays(V) : ~LessThan(max_drawdown, Drawdown(V)[k])
            /\ (\A k \in 1..Len(V) : V[k] = Peak(V, k)) => max_drawdown.num = 0

\* the float is a number: neither NaN nor an infinity
IsNumber(x) == x.den # 0

\* C27: no ratio of the return analytics is infinite or not-a-number: a zero
\* or undefined denominator yields 0 or null, and a day following a day of
\* zero portfolio value has the sentinel as its daily return.
ZeroDenominatorYieldsSentinel ==
    ~return_stats.is_none =>
        LET V == SeriesOfValues IN
        /\ \A k \in 2..Len(V) :
              /\ ~IsInf(return_stats.daily_return[k])
              /\ V[k - 1] = 0 =>
                    \/ IsNaN(return_stats.daily_return[k])
                    \/ return_stats.daily_return[k].num = 0
        /\ \A k \in 1..Len(return_stats.cumulative_return) :
              IsNumber(return_stats.cumulative_return[k])
        /\ IsNumber(return_stats.total_return)
        /\ IsNumber(return_stats.annualized_return.base)
        /\ IsNumber(return_stats.max_drawdown)
        /\ return_stats.volatility # "positive" => return_stats.sharpe_ratio_is_none


\* C28: _get_transactions_with_pagination requests at most 50 pages, whatever
\* the exchange answers on each request.
AtMostMaxPagesRequested == page_count <= max_pages


\* what the supplied trades dated up to the given day add to a holding: the
\* amounts of the given sign for buys and of the other sign for sales
RECURSIVE SumOfTrades(_, _, _, _)
SumOfTrades(txs, symbols, day, field) ==
    IF txs = <<>> THEN 0
    ELSE LET tx == Head(txs)
             counted == tx.symbol \in symbols /\ DateOf(tx.datetime) <= day
         IN  (IF ~counted THEN 0
              ELSE IF tx.side = "buy" THEN tx[field] ELSE 0 - tx[field])
             + SumOfTrades(Tail(txs), symbols, day, field)

\* C30: _calculate_daily_positions applies every supplied trade once: on each
\* day of the grid, the last included, the BTC holding is the sum of the
\* BTC/USDT buy amounts minus the sell amounts, and the USDT holding is 10000
\* minus the cost of the */USDT buys plus the cost of the */USDT sells, over the
\* trades dated on or before that day; on the last day these are all trades.
EveryTradeAppliedOnce ==
    pc = "positioned" =>
        /\ \A k \in 1..Len(positions_df) :
              /\ positions_df[k].BTC
                    = SumOfTrades(raw_transactions, {"BTC/USDT"}, positions_df[k].date, "amount")
              /\ positions_df[k].USDT
                    = initial_usdt - SumOfTrades(raw_transactions, {"BTC/USDT", "ETH/USDT"},
                                                 positions_df[k].date, "cost")
        /\ LET last == positions_df[Len(positions_df)] IN
              /\ last.BTC = SumOfTrades(raw_transactions, {"BTC/USDT"}, MaxApiDay, "amount")
              /\ last.USDT = initial_usdt - SumOfTrades(raw_transactions,
                                                        {"BTC/USDT", "ETH/USDT"},
                                                        MaxApiDay, "cost")

====
